---- MODULE Spec2Model ----
(***************************************************************************)
(* django-tracking2 (tracking/middleware.py, tracking/models.py).          *)
(*                                                                         *)
(* VisitorTrackingMiddleware.process_response is modelled as one handler   *)
(* per in-flight request; every database statement the handler issues is   *)
(* one step, so that requests interleave exactly where the code touches    *)
(* the store.  SetAndUpdateCookieMiddleware is modelled the same way.      *)
(*                                                                         *)
(* Time is counted in ticks of 1/TicksPerSecond second.  Python's None is  *)
(* the string "None"; a nullable integer column that the code always       *)
(* writes before saving is an integer.  A primary key is an opaque value:  *)
(* rows are told apart by it and nothing else is asked of it.              *)
(***************************************************************************)
EXTENDS Integers, Sequences, FiniteSets, TLC

VARIABLES
    settings,    \* tracking.settings, fixed when the module is imported
    visitors,    \* the rows of the Visitor table
    pageviews,   \* the rows of the Pageview table, in insertion order
    clock,       \* timezone.now(), in ticks
    h,           \* VisitorTrackingMiddleware handlers: position and locals
    jar,         \* the browser's "ask_for_login_or_newsletter" cookie
    c,           \* SetAndUpdateCookieMiddleware handlers: position and locals
    nreq         \* number of requests handled so far

vars == <<settings, visitors, pageviews, clock, h, jar, c, nreq>>

\* ---------------------------------------------------------------- bounds

MaxTime == 3
TicksPerSecond == 2
MaxRequests == 3

Handlers == {"h1", "h2"}
Users == {"u1", "u2"}
SessionKeys == {"s1", "s2"}
Tokens == {"t1", "t2"}
UserAgents == {"ua1"}
IpAddresses == {"ip1"}
ExpiryAges == {60}
ExpiryDates == {120}
StatusCodes == {200, 404}
Paths == {<<"/", "p">>, <<"/", "/", "h">>}

None == "None"
AnonymousUser == "AnonymousUser"

\* The value that marks a browser whose user has logged in
Sentinel == "user_registered"

\* ucode gives up after this many draws
MAX_TRIES == 16

\* ------------------------------------------------------- pure functions

\* A strip that leaves the leading slashes in place
lstripNothing(s) == s

\* str.lstrip('/')
RECURSIVE lstrip(_)
lstrip(s) == IF s # <<>> /\ Head(s) = "/" THEN lstrip(Tail(s)) ELSE s

\* re.match of a literal pattern: the pattern must match at the start
match(pattern, path) ==
    /\ Len(pattern) <= Len(path)
    /\ SubSeq(path, 1, Len(pattern)) = pattern

\* user.is_anonymous()
is_anonymous(user) == user = AnonymousUser

\* user.is_authenticated()
is_authenticated(user) == user \in Users

\* smart_text(s, encoding='latin-1', errors='ignore'): latin-1 maps every
\* byte to the code point of the same number, so no character is dropped.
smart_text(s) == s

\* tracking.utils.total_seconds(delta): the length of a timedelta in seconds,
\* fractions kept.  A number of seconds is held as its number of ticks.
total_seconds(delta) == delta

\* int(x) of a number of seconds: Python truncates toward zero
int(x) ==
    IF x >= 0 THEN x \div TicksPerSecond
    ELSE -((-x) \div TicksPerSecond)

\* VisitorTrackingMiddleware._should_track
should_track(user, request, response) ==
    IF ~request.has_session THEN FALSE
    ELSE IF request.is_ajax /\ ~settings.TRACK_AJAX_REQUESTS THEN FALSE
    ELSE IF response.status_code \in settings.TRACK_IGNORE_STATUS_CODES THEN FALSE
    ELSE IF user = None /\ ~settings.TRACK_ANONYMOUS_USERS THEN FALSE
    ELSE IF \E i \in 1..Len(settings.TRACK_IGNORE_URLS) :
                match(settings.TRACK_IGNORE_URLS[i], lstrip(request.path_info))
         THEN FALSE
    ELSE TRUE

\* ------------------------------------------------------------ the store

\* Visitor(...): the model's field defaults.  The table has no explicit
\* primary key, so `pk` is the implicit `id` column.
NewVisitor(pk, ip_address, now) ==
    [id |-> pk, session_key |-> "", cookie_key |-> "", user |-> None,
     ip_address |-> ip_address, user_agent |-> None, start_time |-> now,
     expiry_age |-> 0, expiry_time |-> 0, time_on_site |-> 0,
     end_time |-> None]

\* Visitor.objects.get(pk=...): the rows with that primary key
RowsWithPk(pk) == {v \in visitors : v.id = pk}

\* ------------------------------------------------------------- handlers

NoVisitor == NewVisitor("", "", 0)

\* A handler between two requests
Idle ==
    [pc |-> "idle", track |-> FALSE, user |-> None, key |-> "",
     cookie |-> None, ua |-> None, age |-> 0, date |-> 0, ip |-> "",
     path |-> <<>>, now |-> 0, found |-> FALSE, seen |-> NoVisitor,
     visitor |-> NoVisitor, outcome |-> ""]

\* What process_response reads of a request before it decides to track it
FilterInputs ==
    [has_session : BOOLEAN, is_ajax : BOOLEAN, path_info : Paths,
     user : Users \cup {None, AnonymousUser}]

Responses == [status_code : StatusCodes]

\* What it reads of a request it tracks
TrackInputs(keys, cookies, uas, ages, dates, ips) ==
    [session_key : keys \cup {""}, cookie : cookies, ua : uas, age : ages,
     date : dates, ip : ips]

\* request.session.save(): the session store mints a key no session holds
FreshSessionKeys(keys) ==
    {k \in keys :
        /\ \A v \in visitors :
              k # (IF settings.TRACK_ANONYMOUS_USERS_WITH_COOKIES
                   THEN v.session_key ELSE v.id)
        /\ \A q \in Handlers : h[q].key # k}

\* Handlers are interchangeable: a request is taken by the first free one.
Before(q, p) == q = "h1" /\ p = "h2"

\* A process_response that goes on whatever the filter says
SkipsNever(track) == FALSE

\* `if not self._should_track(user, request, response): return response`
Skips(track) == ~track

\* process_response, lines 143-159: everything up to the first statement
\* that touches the store
ProcessResponse(p, requests, inputs) ==
    /\ h[p].pc = "idle"
    /\ nreq < MaxRequests
    /\ \A q \in Handlers : Before(q, p) => h[q].pc # "idle"
    /\ \E request \in requests, response \in Responses :
        LET user == IF request.user # None /\ is_anonymous(request.user)
                    THEN None ELSE request.user
            track == should_track(user, request, response)
            cookies == settings.TRACK_ANONYMOUS_USERS_WITH_COOKIES
        IN  IF Skips(track)
            THEN h' = [h EXCEPT ![p] =
                        [Idle EXCEPT !.pc = "done", !.track = track,
                                     !.outcome = "response"]]
            ELSE \E r \in inputs :
                 \E minted \in (IF r.session_key = ""
                                THEN FreshSessionKeys({x.session_key : x \in inputs} \ {""})
                                ELSE {""}) :
                   h' = [h EXCEPT ![p] =
                        [Idle EXCEPT
                           !.pc = IF cookies THEN "create" ELSE "get",
                           !.track = track,
                           !.user = user,
                           !.key = IF r.session_key = ""
                                   THEN minted ELSE r.session_key,
                           !.cookie = r.cookie,
                           !.ua = r.ua,
                           !.age = r.age,
                           !.date = r.date,
                           !.ip = r.ip,
                           !.path = request.path_info,
                           !.now = clock]]
    /\ nreq' = nreq + 1
    /\ UNCHANGED <<jar, c, settings, visitors, pageviews, clock>>

\* An upsert that restarts the visit when it links the user
RefreshedRestarting(visitor, user, ua, age, date, visit_time) ==
    LET v1 == IF user # None /\ visitor.user = None
              THEN [visitor EXCEPT !.user = user, !.start_time = visit_time]
              ELSE visitor
        v2 == [v1 EXCEPT !.expiry_age = age, !.expiry_time = date]
        v3 == IF ua # None
              THEN [v2 EXCEPT !.user_agent = smart_text(ua)] ELSE v2
    IN  [v3 EXCEPT !.time_on_site =
                      int(total_seconds(visit_time - v3.start_time))]

\* An upsert that stores the request's User-Agent even when there is none
RefreshedOverwriting(visitor, user, ua, age, date, visit_time) ==
    LET v1 == IF user # None /\ visitor.user = None
              THEN [visitor EXCEPT !.user = user] ELSE visitor
        v2 == [v1 EXCEPT !.expiry_age = age, !.expiry_time = date,
                         !.user_agent = ua]
    IN  [v2 EXCEPT !.time_on_site =
                      int(total_seconds(visit_time - v2.start_time))]

\* _refresh_visitor, lines 71-91: the changes made to the object in memory
Refreshed(visitor, user, ua, age, date, visit_time) ==
    LET v1 == IF user # None /\ visitor.user = None
              THEN [visitor EXCEPT !.user = user] ELSE visitor
        v2 == [v1 EXCEPT !.expiry_age = age, !.expiry_time = date]
        v3 == IF ua # None
              THEN [v2 EXCEPT !.user_agent = smart_text(ua)] ELSE v2
    IN  [v3 EXCEPT !.time_on_site =
                      int(total_seconds(visit_time - v3.start_time))]

\* _refresh_visitor, lines 61-91: the lookup, and the object in memory.  A
\* new Visitor takes start_time from the field default, timezone.now() at
\* its construction, not from the visit_time it is passed.
RefreshVisitorGet(p) ==
    /\ h[p].pc = "get"
    /\ LET rows == RowsWithPk(h[p].key)
           found == rows # {}
           visitor == IF found THEN CHOOSE v \in rows : TRUE
                      ELSE NewVisitor(h[p].key, h[p].ip, clock)
       IN  h' = [h EXCEPT ![p].pc = "save",
                          ![p].found = found,
                          ![p].seen = visitor,
                          ![p].ua = None, ![p].age = 0, ![p].date = 0,
                          ![p].ip = "",
                          ![p].visitor = Refreshed(visitor, h[p].user, h[p].ua,
                                                   h[p].age, h[p].date, h[p].now)]
    /\ UNCHANGED <<jar, c, settings, visitors, pageviews, clock, nreq>>

\* A process_response that records page views in either mode
AfterSaveAnyMode(p, visitor) ==
    IF settings.TRACK_PAGEVIEWS
    THEN [h EXCEPT ![p].pc = "pageview", ![p].visitor = visitor]
    ELSE [h EXCEPT ![p].pc = "done", ![p].visitor = visitor,
                   ![p].outcome = "response"]

\* process_response, lines 167-170, after the visitor is written
AfterSave(p, visitor) ==
    IF settings.TRACK_PAGEVIEWS /\ ~settings.TRACK_ANONYMOUS_USERS_WITH_COOKIES
    THEN [h EXCEPT ![p].pc = "pageview", ![p].visitor = visitor]
    ELSE [h EXCEPT ![p].pc = "done", ![p].visitor = visitor,
                   ![p].outcome = "response"]

\* visitor.save(), first statement: UPDATE ... WHERE id = pk, every column
RefreshVisitorSaveUpdate(p) ==
    /\ h[p].pc = "save"
    /\ LET rows == RowsWithPk(h[p].visitor.id)
       IN  IF rows # {}
           THEN /\ visitors' = (visitors \ rows) \cup {h[p].visitor}
                /\ h' = AfterSave(p, h[p].visitor)
           ELSE /\ visitors' = visitors
                /\ h' = [h EXCEPT ![p].pc = "insert"]
    /\ UNCHANGED <<jar, c, settings, pageviews, clock, nreq>>

\* A table that accepts a second row with a primary key it already holds
PkConflictUnchecked(pk) == FALSE

\* The primary key is unique: an INSERT of a key the table holds is refused
PkConflict(pk) == RowsWithPk(pk) # {}

\* visitor.save(), second statement, when the UPDATE matched no row: INSERT.
\* Inserting a key that is there by now raises IntegrityError, which nothing
\* in the middleware catches.
RefreshVisitorSaveInsert(p) ==
    /\ h[p].pc = "insert"
    /\ IF PkConflict(h[p].visitor.id)
       THEN /\ visitors' = visitors
            /\ h' = [h EXCEPT ![p].pc = "done",
                              ![p].outcome = "IntegrityError"]
       ELSE /\ visitors' = visitors \cup {h[p].visitor}
            /\ h' = AfterSave(p, h[p].visitor)
    /\ UNCHANGED <<jar, c, settings, pageviews, clock, nreq>>

\* A ledger that records a request whether it carries the cookie or not
NoCookieNever(cookie_key) == FALSE

\* `if not cookie_key: return`
NoCookie(cookie_key) == cookie_key \in {None, ""}

\* A ledger that passes the request's user on to the row
CookieVisitorWithUser(p) ==
    [NewVisitor(Cardinality(visitors) + 1, h[p].ip, clock)
       EXCEPT !.session_key = h[p].key,
              !.cookie_key = h[p].cookie,
              !.user = h[p].user,
              !.time_on_site = 1,
              !.expiry_age = h[p].age,
              !.expiry_time = h[p].date,
              !.user_agent = IF h[p].ua # None
                             THEN smart_text(h[p].ua) ELSE h[p].ua]

\* _refresh_cookie_visitor, lines 105-118: the row that is created.  The
\* user the method is passed is not used.
CookieVisitor(p) ==
    [NewVisitor(Cardinality(visitors) + 1, h[p].ip, clock)
       EXCEPT !.session_key = h[p].key,
              !.cookie_key = h[p].cookie,
              !.time_on_site = 1,
              !.expiry_age = h[p].age,
              !.expiry_time = h[p].date,
              !.user_agent = IF h[p].ua # None
                             THEN smart_text(h[p].ua) ELSE h[p].ua]

\* _refresh_cookie_visitor: Visitor.objects.create(...) and the save() of
\* the same values that follows it
RefreshCookieVisitor(p) ==
    /\ h[p].pc = "create"
    /\ IF NoCookie(h[p].cookie)
       THEN /\ visitors' = visitors
            /\ h' = AfterSave(p, NoVisitor)
       ELSE /\ visitors' = visitors \cup {CookieVisitor(p)}
            /\ h' = AfterSave(p, CookieVisitor(p))
    /\ UNCHANGED <<jar, c, settings, pageviews, clock, nreq>>

\* _add_pageview
AddPageview(p) ==
    /\ h[p].pc = "pageview"
    /\ pageviews' = Append(pageviews,
                      [visitor |-> h[p].visitor.id, url |-> h[p].path,
                       view_time |-> h[p].now])
    /\ h' = [h EXCEPT ![p].pc = "done", ![p].outcome = "response"]
    /\ UNCHANGED <<jar, c, settings, visitors, clock, nreq>>

\* process_response is left: `return response`, or the exception that
\* nothing caught goes to the caller
Return(p) ==
    /\ h[p].pc = "done"
    /\ h' = [h EXCEPT ![p] = Idle]
    /\ UNCHANGED <<jar, c, settings, visitors, pageviews, clock, nreq>>

\* timezone.now() advances
Tick ==
    /\ clock < MaxTime
    /\ clock' = clock + 1
    /\ UNCHANGED <<jar, c, settings, visitors, pageviews, h, nreq>>

\* ------------------------------------------------------ cookie issuer

\* An issuer between two requests
IdleIssuer ==
    [pc |-> "idle", user |-> None, cookie |-> None, value |-> None,
     new_code |-> None, loop_num |-> 0, set_cookie |-> FALSE, outcome |-> ""]

\* An issuer that mints a code whatever the request carries
NeedsTokenAlways(value) == TRUE

\* `if not value`: no cookie, or an empty one
NeedsToken(value) == value \in {None, ""}

\* SetAndUpdateCookieMiddleware.process_response, lines 176-179: the browser
\* sends the cookie it holds and the issuer reads it
IssuerProcessResponse(q, users) ==
    /\ c[q].pc = "idle"
    /\ nreq < MaxRequests
    /\ \A r \in Handlers : Before(r, q) => c[r].pc # "idle"
    /\ \E user \in users :
          c' = [c EXCEPT ![q] =
                 [IdleIssuer EXCEPT
                    !.pc = IF NeedsToken(jar) THEN "ucode" ELSE "respond",
                    !.user = user,
                    !.cookie = jar,
                    !.value = jar]]
    /\ nreq' = nreq + 1
    /\ UNCHANGED <<settings, visitors, pageviews, clock, h, jar>>

\* A loop that allows one draw more
MayDrawOnceMore(loop_num) == loop_num <= MAX_TRIES

\* `if loop_num < MAX_TRIES`
MayDraw(loop_num) == loop_num < MAX_TRIES

\* ucode: one turn of the loop.  uuid.uuid4() is a draw from the codes; the
\* draw is checked against the session_key column.
Ucode(q) ==
    /\ c[q].pc = "ucode"
    /\ IF MayDraw(c[q].loop_num)
       THEN \E new_code \in Tokens :
              LET unique == ~\E v \in visitors : v.session_key = new_code
              IN  c' = [c EXCEPT
                         ![q].new_code = new_code,
                         ![q].loop_num = @ + 1,
                         ![q].value = IF unique THEN new_code ELSE @,
                         ![q].pc = IF unique THEN "respond" ELSE "ucode"]
       ELSE c' = [c EXCEPT ![q].pc = "done", ![q].outcome = "ValueError"]
    /\ UNCHANGED <<settings, visitors, pageviews, clock, h, jar, nreq>>

\* `if not request.user.is_authenticated() and value != "user_registered"`
SetsCookie(user, value) == ~is_authenticated(user) /\ value # Sentinel

\* process_response, lines 182-189; the browser stores what set_cookie sent
IssuerRespond(q) ==
    /\ c[q].pc = "respond"
    /\ LET value == IF is_authenticated(c[q].user)
                    THEN Sentinel ELSE c[q].value
           sets == SetsCookie(c[q].user, value)
       IN  /\ jar' = IF sets THEN value ELSE jar
           /\ c' = [c EXCEPT ![q].pc = "done", ![q].value = value,
                             ![q].set_cookie = sets,
                             ![q].outcome = "response"]
    /\ UNCHANGED <<settings, visitors, pageviews, clock, h, nreq>>

\* The issuer's process_response is left
IssuerReturn(q) ==
    /\ c[q].pc = "done"
    /\ c' = [c EXCEPT ![q] = IdleIssuer]
    /\ UNCHANGED <<settings, visitors, pageviews, clock, h, jar, nreq>>

\* ------------------------------------------------------- specification

\* tracking.settings: every filter rule able to reject a request
Settings(track_anonymous, track_pageviews, with_cookies) ==
    [TRACK_AJAX_REQUESTS : {FALSE},
     TRACK_ANONYMOUS_USERS : track_anonymous,
     TRACK_IGNORE_STATUS_CODES : {{404}},
     TRACK_IGNORE_URLS : {<<<<"h">>>>},
     TRACK_PAGEVIEWS : track_pageviews,
     TRACK_ANONYMOUS_USERS_WITH_COOKIES : with_cookies]

InitWith(S, jars) ==
    /\ settings \in S
    /\ jar \in jars
    /\ c = [q \in Handlers |-> IdleIssuer]
    /\ visitors = {}
    /\ pageviews = <<>>
    /\ clock = 0
    /\ h = [p \in Handlers |-> Idle]
    /\ nreq = 0

\* Session mode: requests of any user, on any session, racing each other
\* within one tick of the clock
SessionInputs ==
    TrackInputs(SessionKeys, {None}, UserAgents, ExpiryAges, ExpiryDates,
                IpAddresses)

Init == InitWith(Settings({TRUE}, BOOLEAN, {FALSE}), {None})

Next ==
    \/ \E p \in Handlers : ProcessResponse(p, FilterInputs, SessionInputs)
    \/ \E p \in Handlers : RefreshVisitorGet(p)
    \/ \E p \in Handlers : RefreshVisitorSaveUpdate(p)
    \/ \E p \in Handlers : RefreshVisitorSaveInsert(p)
    \/ \E p \in Handlers : AddPageview(p)
    \/ \E p \in Handlers : Return(p)

Spec == Init /\ [][Next]_vars

\* Both identity modes: the requests of one browser, racing each other
\* within one tick of the clock
ModeRequests ==
    [has_session : BOOLEAN, is_ajax : BOOLEAN, path_info : Paths,
     user : {"u1", None}]

ModeInputs ==
    TrackInputs({"s1"}, {"t1", None}, UserAgents, ExpiryAges, ExpiryDates,
                IpAddresses)

InitModes == InitWith(Settings(BOOLEAN, BOOLEAN, BOOLEAN), {None})

NextModes ==
    \/ \E p \in Handlers : ProcessResponse(p, ModeRequests, ModeInputs)
    \/ \E p \in Handlers : RefreshVisitorGet(p)
    \/ \E p \in Handlers : RefreshVisitorSaveUpdate(p)
    \/ \E p \in Handlers : RefreshVisitorSaveInsert(p)
    \/ \E p \in Handlers : RefreshCookieVisitor(p)
    \/ \E p \in Handlers : AddPageview(p)
    \/ \E p \in Handlers : Return(p)

SpecModes == InitModes /\ [][NextModes]_vars

\* Session mode: the requests of one session while the clock advances
TimedRequests ==
    [has_session : {TRUE}, is_ajax : {FALSE}, path_info : {<<"/", "p">>},
     user : {"u1", None, AnonymousUser}]

TimedInputs ==
    TrackInputs({"s1"}, {None}, UserAgents, ExpiryAges, ExpiryDates,
                IpAddresses)

InitTime == InitWith(Settings({TRUE}, {FALSE}, {FALSE}), {None})

NextTime ==
    \/ \E p \in Handlers : ProcessResponse(p, TimedRequests, TimedInputs)
    \/ \E p \in Handlers : RefreshVisitorGet(p)
    \/ \E p \in Handlers : RefreshVisitorSaveUpdate(p)
    \/ \E p \in Handlers : RefreshVisitorSaveInsert(p)
    \/ \E p \in Handlers : Return(p)
    \/ Tick

SpecTime == InitTime /\ [][NextTime]_vars

\* Cookie mode with the issuer installed: the requests of one browser, which
\* sends the cookie it holds.  The cookie a browser first holds is whatever
\* the client sends.  The session engine is pluggable and the session_key
\* column takes any string of up to 72 characters, so a session key may read
\* the same as a drawn code.
IssuerRequests ==
    [has_session : {TRUE}, is_ajax : {FALSE}, path_info : {<<"/", "p">>},
     user : {"u1", None}]

IssuerSessionKeys == {"s1", "t1"}

IssuerInputs ==
    [session_key : IssuerSessionKeys, cookie : {jar}, ua : UserAgents,
     age : ExpiryAges, date : ExpiryDates, ip : IpAddresses]

InitIssuer == InitWith(Settings({TRUE}, {FALSE}, {TRUE}), {None, "t1", Sentinel})

NextIssuer ==
    \/ \E p \in Handlers : ProcessResponse(p, IssuerRequests, IssuerInputs)
    \/ \E p \in Handlers : RefreshCookieVisitor(p)
    \/ \E p \in Handlers : Return(p)
    \/ \E q \in Handlers : IssuerProcessResponse(q, {"u1", AnonymousUser})
    \/ \E q \in Handlers : Ucode(q)
    \/ \E q \in Handlers : IssuerRespond(q)
    \/ \E q \in Handlers : IssuerReturn(q)

SpecIssuer == InitIssuer /\ [][NextIssuer]_vars

\* The policy filter under every combination of its settings: session-mode
\* requests of one session, with paths that carry the ignored pattern at
\* the start, behind leading slashes, and further in
FilterSettings ==
    [TRACK_AJAX_REQUESTS : BOOLEAN,
     TRACK_ANONYMOUS_USERS : BOOLEAN,
     TRACK_IGNORE_STATUS_CODES : {{}, {404}},
     TRACK_IGNORE_URLS : {<<>>, <<<<"h">>>>, <<<<"x">>, <<"p", "h">>>>},
     TRACK_PAGEVIEWS : {FALSE},
     TRACK_ANONYMOUS_USERS_WITH_COOKIES : {FALSE}]

FilterPaths == {<<"/", "/", "h">>, <<"/", "p", "h">>, <<"/", "a", "h">>}

FilterRequests ==
    [has_session : BOOLEAN, is_ajax : BOOLEAN, path_info : FilterPaths,
     user : {"u1", None, AnonymousUser}]

FilterTrackInputs ==
    [session_key : {"s1"}, cookie : {None}, ua : UserAgents,
     age : ExpiryAges, date : ExpiryDates, ip : IpAddresses]

InitFilter == InitWith(FilterSettings, {None})

NextFilter ==
    \/ \E p \in Handlers : ProcessResponse(p, FilterRequests, FilterTrackInputs)
    \/ \E p \in Handlers : RefreshVisitorGet(p)
    \/ \E p \in Handlers : RefreshVisitorSaveUpdate(p)
    \/ \E p \in Handlers : RefreshVisitorSaveInsert(p)
    \/ \E p \in Handlers : Return(p)

SpecFilter == InitFilter /\ [][NextFilter]_vars

\* Session mode: the requests of one session, which differ in User-Agent
\* (or carry none), expiry and address, while the clock advances
RefreshRequests ==
    [has_session : {TRUE}, is_ajax : {FALSE}, path_info : {<<"/", "p">>},
     user : {None}]

RefreshInputs ==
    {[session_key |-> "s1", cookie |-> None, ua |-> "ua1", age |-> 60,
      date |-> 120, ip |-> "ip1"],
     [session_key |-> "s1", cookie |-> None, ua |-> "ua2", age |-> 30,
      date |-> 90, ip |-> "ip2"],
     [session_key |-> "s1", cookie |-> None, ua |-> None, age |-> 30,
      date |-> 90, ip |-> "ip2"]}

InitRefresh == InitWith(Settings({TRUE}, {FALSE}, {FALSE}), {None})

NextRefresh ==
    \/ \E p \in Handlers : ProcessResponse(p, RefreshRequests, RefreshInputs)
    \/ \E p \in Handlers : RefreshVisitorGet(p)
    \/ \E p \in Handlers : RefreshVisitorSaveUpdate(p)
    \/ \E p \in Handlers : RefreshVisitorSaveInsert(p)
    \/ \E p \in Handlers : Return(p)
    \/ Tick

SpecRefresh == InitRefresh /\ [][NextRefresh]_vars

\* --------------------------------------------------------------- claims

\* The key a row is looked up by: the primary key the session key is passed
\* as, or the cookie value in cookie mode
IdentityKey(v) ==
    IF settings.TRACK_ANONYMOUS_USERS_WITH_COOKIES THEN v.cookie_key ELSE v.id

Finished(p) == h[p].pc \in {"pageview", "done"} /\ h[p].track

TrackOf(p) == IF h[p].pc = "idle" THEN h'[p].track ELSE h[p].track

\* C2: no step of a request the filter rejected changes the Visitor or the
\* Pageview table, and such a request goes from the filter straight to its
\* response.
C2_UntrackedChangesNothing ==
    [][\A p \in Handlers :
          (h'[p] # h[p] /\ ~TrackOf(p)) =>
              /\ visitors' = visitors
              /\ pageviews' = pageviews
              /\ h'[p].pc \in {"done", "idle"}]_vars

\* A rejected request got its response while both tables held rows.
C2_Witness ==
    \E p \in Handlers :
        /\ h[p].pc = "done" /\ ~h[p].track /\ h[p].outcome = "response"
        /\ visitors # {}
        /\ pageviews # <<>>

\* C3 as stated: no request ends with the conflict of a concurrent insert
\* raised to the caller of process_response.
C3_ConflictNeverSurfaces ==
    \A p \in Handlers : h[p].outcome # "IntegrityError"

\* C4 as stated: a row whose user is set keeps that user in every step.
C4_UserWriteOnce ==
    [][\A v \in visitors :
          v.user # None =>
              \E w \in visitors' : w.id = v.id /\ w.user = v.user]_vars

\* The step in which handler p's save() writes the row it looked up
SavesFound(p) == h[p].pc = "save" /\ h[p].found /\ h'[p].pc # "save"

\* C5: when a request with an authenticated user found a Visitor without a
\* user, the row its save() writes has that user and the start_time that
\* was read.
C5_UserLinkedStartKept ==
    [][\A p \in Handlers :
          (SavesFound(p) /\ h[p].seen.user = None /\ h[p].user # None) =>
              \E w \in visitors' :
                  /\ w.id = h[p].key
                  /\ w.user = h[p].user
                  /\ w.start_time = h[p].seen.start_time]_vars

\* An authenticated request has upgraded a row created earlier by an
\* anonymous one.
C5_Witness ==
    \E p \in Handlers : \E w \in visitors :
        /\ h[p].pc = "done" /\ h[p].found
        /\ h[p].seen.user = None /\ h[p].user # None
        /\ w.id = h[p].key /\ w.user = h[p].user
        /\ w.start_time = h[p].seen.start_time
        /\ w.start_time < h[p].now

\* n is the span d, in ticks, cut to whole seconds
WholeSeconds(d, n) ==
    IF d >= 0
    THEN n * TicksPerSecond <= d /\ d < (n + 1) * TicksPerSecond
    ELSE (n - 1) * TicksPerSecond < d /\ d <= n * TicksPerSecond

\* C6 as stated: the row a repeat-sight request writes keeps the start_time
\* that was read, and its time_on_site is now - start_time in whole seconds
\* and not negative.
C6_RepeatSightTimeOnSite ==
    [][\A p \in Handlers :
          SavesFound(p) =>
              \E w \in visitors' :
                  /\ w.id = h[p].key
                  /\ w.start_time = h[p].seen.start_time
                  /\ WholeSeconds(h[p].now - w.start_time, w.time_on_site)
                  /\ w.time_on_site >= 0]_vars

\* The step in which handler p's save() inserts a new row
Inserts(p) ==
    /\ h[p].pc = "insert"
    /\ h'[p].pc # "insert"
    /\ h'[p].outcome # "IntegrityError"

\* C7 as stated: a row that is created has time_on_site 0 and the request's
\* now as start_time.
C7_FirstSightStartIsNow ==
    [][\A p \in Handlers :
          Inserts(p) =>
              \E w \in visitors' :
                  /\ w.id = h[p].key
                  /\ w.time_on_site = 0
                  /\ w.start_time = h[p].now]_vars

\* The issuer has drawn a code that passed the check and not yet returned
Minted(q) ==
    /\ c[q].pc \in {"respond", "done"}
    /\ c[q].loop_num > 0
    /\ c[q].outcome # "ValueError"

\* C8: a response only ever moves the browser's cookie from absent to a
\* code, or from a code to a code or to the sentinel; a sentinel is never
\* replaced.
C8_CookieMoves ==
    [][jar' # jar =>
          \/ jar = None /\ jar' \in Tokens
          \/ jar \in Tokens /\ jar' \in Tokens \cup {Sentinel}]_vars

\* An anonymous request that carried the sentinel has been answered and the
\* browser still holds the sentinel
C8_Witness ==
    \E q \in Handlers :
        /\ c[q].pc = "done"
        /\ c[q].cookie = Sentinel
        /\ ~is_authenticated(c[q].user)
        /\ jar = Sentinel

\* C9 as stated: after the response to a request of an authenticated user
\* the browser holds the sentinel.
C9_AuthenticatedGetsSentinel ==
    [][\A q \in Handlers :
          (c[q].pc = "respond" /\ c'[q].pc = "done"
              /\ is_authenticated(c[q].user)) =>
                  jar' = Sentinel]_vars

\* C10 as stated: two requests without a cookie that are in flight together
\* are never given the same code.
C10_ConcurrentCodesDiffer ==
    \A q \in Handlers, r \in Handlers :
        (q # r /\ Minted(q) /\ Minted(r)
            /\ c[q].cookie = None /\ c[r].cookie = None) =>
                c[q].new_code # c[r].new_code

\* The step in which handler q's ucode accepts the code it drew
Accepts(q) == c[q].pc = "ucode" /\ c'[q].pc = "respond"

\* C11 as stated: a code that ucode accepts is, when its check runs, the
\* identity key of no Visitor row; in cookie mode, the cookie key of none.
C11_AcceptedCodeIsNoIdentityKey ==
    [][\A q \in Handlers :
          Accepts(q) =>
              \A v \in visitors : IdentityKey(v) # c'[q].new_code]_vars

\* C12: ucode draws at most MAX_TRIES codes, one per turn; a draw that
\* passes the check is returned at once and a draw that fails it is not;
\* when MAX_TRIES draws have failed the request ends with ValueError, no
\* code is returned and the browser's cookie is left as it was.
C12_UcodeBounded ==
    [][\A q \in Handlers :
          (c[q].pc = "ucode" /\ c'[q] # c[q]) =>
              IF c[q].loop_num < MAX_TRIES
              THEN /\ c'[q].loop_num = c[q].loop_num + 1
                   /\ c'[q].new_code \in Tokens
                   /\ IF \E v \in visitors : v.session_key = c'[q].new_code
                      THEN c'[q].pc = "ucode" /\ c'[q].value = c[q].value
                      ELSE c'[q].pc = "respond"
                              /\ c'[q].value = c'[q].new_code
              ELSE /\ c[q].loop_num = MAX_TRIES
                   /\ c'[q].pc = "done"
                   /\ c'[q].outcome = "ValueError"
                   /\ c'[q].value = None
                   /\ ~c'[q].set_cookie
                   /\ jar' = jar]_vars

\* A request ended with ValueError after MAX_TRIES draws, all of them
\* session keys of stored rows, and without a cookie being set.
C12_Witness ==
    \E q \in Handlers :
        /\ c[q].pc = "done"
        /\ c[q].outcome = "ValueError"
        /\ c[q].loop_num = MAX_TRIES
        /\ \E v \in visitors : v.session_key = c[q].new_code
        /\ c[q].cookie = None
        /\ ~c[q].set_cookie

\* The pattern stands in the path right behind its leading slashes
IgnoredBy(pattern, path) ==
    \E k \in 0..Len(path) :
        /\ \A i \in 1..k : path[i] = "/"
        /\ k < Len(path) => path[k + 1] # "/"
        /\ k + Len(pattern) <= Len(path)
        /\ \A i \in 1..Len(pattern) : path[k + i] = pattern[i]

\* C13: under every setting and for every request, response and user,
\* _should_track is true exactly when the request has a session, is not an
\* ajax request left untracked, has no ignored status code, has a user or
\* anonymous users are tracked, and its path behind the leading slashes
\* starts with no ignore pattern; a path that does is rejected whatever the
\* rest.
C13_ShouldTrackIffFiveRules ==
    \A request \in FilterRequests, response \in Responses,
       user \in Users \cup {None} :
        LET ignored == \E i \in DOMAIN settings.TRACK_IGNORE_URLS :
                          IgnoredBy(settings.TRACK_IGNORE_URLS[i],
                                    request.path_info)
        IN  /\ should_track(user, request, response) <=>
                  /\ request.has_session
                  /\ ~(request.is_ajax /\ ~settings.TRACK_AJAX_REQUESTS)
                  /\ response.status_code \notin
                        settings.TRACK_IGNORE_STATUS_CODES
                  /\ ~(user = None /\ ~settings.TRACK_ANONYMOUS_USERS)
                  /\ ~ignored
            /\ ignored => ~should_track(user, request, response)

\* With "h" ignored, a request for /p/h is being tracked while another
\* request has been rejected.
C13_Witness ==
    \E p \in Handlers, q \in Handlers :
        /\ settings.TRACK_IGNORE_URLS = <<<<"h">>>>
        /\ h[p].track /\ h[p].path = <<"/", "p", "h">>
        /\ h[q].pc = "done" /\ ~h[q].track

\* The step in which handler p's _refresh_cookie_visitor runs
Creates(p) == h[p].pc = "create" /\ h'[p].pc # "create"

\* The rows a step adds that fit the request of handler p: a fresh id, the
\* request's session key and cookie, time_on_site 1
FreshRows(p) ==
    {w \in visitors' \ visitors :
        /\ \A v \in visitors : v.id # w.id
        /\ w.session_key = h[p].key
        /\ w.cookie_key = h[p].cookie
        /\ w.time_on_site = 1}

Completes(p) == h[p].track /\ h[p].pc # "done" /\ h'[p].pc = "done"

\* C15 as stated: in session mode with TRACK_PAGEVIEWS on, a tracked
\* request is through only by adding one Pageview row, which refers to the
\* Visitor row of the request's session key, and every step keeps the rows
\* that are there, in place and unchanged.
C15_OnePageviewPerRequest ==
    [][(settings.TRACK_PAGEVIEWS
            /\ ~settings.TRACK_ANONYMOUS_USERS_WITH_COOKIES) =>
          /\ Len(pageviews') >= Len(pageviews)
          /\ SubSeq(pageviews', 1, Len(pageviews)) = pageviews
          /\ \A p \in Handlers :
                Completes(p) =>
                    /\ Len(pageviews') = Len(pageviews) + 1
                    /\ pageviews'[Len(pageviews')].visitor = h[p].key
                    /\ \E v \in visitors' : v.id = h[p].key]_vars

\* The step in which handler p's _refresh_visitor has looked the row up
\* and set the fields of the object in memory
Prepares(p) == h[p].pc = "get" /\ h'[p].pc = "save"

\* The step in which handler p's save() writes its row, by UPDATE or INSERT
Writes(p) ==
    \/ h[p].pc = "save" /\ h'[p].pc \notin {"save", "insert"}
    \/ Inserts(p)

\* The row written is the object in memory, field by field
WrittenAsHeld(p) ==
    \E w \in visitors' : w.id = h[p].key /\ w = h[p].visitor

C17_NoPageviewInCookieMode ==
    settings.TRACK_ANONYMOUS_USERS_WITH_COOKIES => pageviews = <<>>

\* Cookie mode with TRACK_PAGEVIEWS on: a tracked request has got its
\* response and left a Visitor row, and there is no Pageview.
C17_Witness ==
    /\ settings.TRACK_ANONYMOUS_USERS_WITH_COOKIES
    /\ settings.TRACK_PAGEVIEWS
    /\ pageviews = <<>>
    /\ \E p \in Handlers :
          /\ h[p].pc = "done" /\ h[p].track /\ h[p].outcome = "response"
          /\ h[p].visitor \in visitors

\* Row w is row v but for the fields an upsert may set
SameButRefreshed(v, w) ==
    /\ w.id = v.id
    /\ w.session_key = v.session_key
    /\ w.cookie_key = v.cookie_key
    /\ w.ip_address = v.ip_address
    /\ w.start_time = v.start_time
    /\ w.end_time = v.end_time
    /\ v.user # None => w.user = v.user

\* C18 as stated: the write of an upsert that found its row leaves the
\* stored row as it was in every field but user (when unset), expiry_age,
\* expiry_time, user_agent and time_on_site, and no step removes a row.
C18_RepeatSightFrame ==
    [][/\ \A v \in visitors : \E w \in visitors' : w.id = v.id
       /\ \A p \in Handlers :
             SavesFound(p) =>
                 \A v \in RowsWithPk(h[p].key) :
                     \E w \in visitors' : SameButRefreshed(v, w)]_vars

\* Every step of an issuer that answers an anonymous request carrying a
\* code: it does not enter ucode, and its response sets the cookie to the
\* code the request carried
ReissuesCarried(q) ==
    (c'[q] # c[q] /\ c'[q].cookie \in Tokens
        /\ ~is_authenticated(c'[q].user)) =>
            /\ c'[q].pc # "ucode"
            /\ c'[q].loop_num = 0
            /\ c'[q].value = c'[q].cookie
            /\ (c[q].pc = "respond" /\ c'[q].pc = "done") =>
                    c'[q].set_cookie /\ jar' = c[q].cookie

\* C19 as stated: an anonymous request that carries a code gets that very
\* code back without ucode being run, and the code a browser holds is never
\* replaced by another code.
C19_TokenNeverChanges ==
    [][/\ \A q \in Handlers : ReissuesCarried(q)
       /\ (jar \in Tokens /\ jar' \in Tokens) => jar' = jar]_vars

\* C19, amended: an anonymous request that carries a code gets that very
\* code back without ucode being run; the code a browser holds is replaced
\* by another code only by the response to a request that was sent before
\* the browser held its present code: one that carried no cookie and had a
\* code drawn for it, or one that carried an earlier code.
C19_TokenChangesOnlyByOverlap ==
    [][/\ \A q \in Handlers : ReissuesCarried(q)
       /\ (jar \in Tokens /\ jar' \in Tokens /\ jar' # jar) =>
             \E q \in Handlers :
                 /\ c[q].pc = "respond" /\ c'[q].pc = "done"
                 /\ ~is_authenticated(c[q].user)
                 /\ c[q].cookie # jar
                 /\ IF c[q].cookie = None
                    THEN c[q].loop_num > 0 /\ jar' = c[q].new_code
                    ELSE jar' = c[q].cookie]_vars

\* An anonymous request that carried t1 has been answered with t1, no code
\* drawn, and the browser holds t1.
C19_Witness ==
    \E q \in Handlers :
        /\ c[q].pc = "done" /\ c[q].outcome = "response"
        /\ c[q].cookie = "t1" /\ ~is_authenticated(c[q].user)
        /\ c[q].loop_num = 0 /\ c[q].set_cookie /\ c[q].value = "t1"
        /\ jar = "t1"

\* C20: in cookie mode no Visitor row has a user, in any state.
C20_CookieRowsHaveNoUser ==
    settings.TRACK_ANONYMOUS_USERS_WITH_COOKIES =>
        \A v \in visitors : v.user = None

\* In cookie mode a request of user u1 that carried the cookie has been
\* recorded, and its row has no user.
C20_Witness ==
    /\ settings.TRACK_ANONYMOUS_USERS_WITH_COOKIES
    /\ \E p \in Handlers :
          /\ h[p].pc = "done" /\ h[p].track /\ h[p].user = "u1"
          /\ h[p].cookie # None
          /\ h[p].visitor \in visitors
          /\ h[p].visitor.user = None

====
